---- MODULE Spec2Model ----
(***************************************************************************)
(* State-machine model of RubiksCube (src/src/cube.ts): the 27 pieces, the *)
(* drag session fields, the shared rotationAngle / isRotating fields and   *)
(* the requestAnimationFrame callbacks of the layer and whole-cube         *)
(* animations.                                                             *)
(*                                                                         *)
(* Angles are integers in units of pi/4 (HalfPi = 2 units).  Coordinates   *)
(* are exact numbers (a + b*sqrt(2)) / 2^k, written <<a, b, k>> in lowest  *)
(* terms, which is closed under rotation by multiples of pi/4.  Time is an *)
(* integer number of 250 ms steps, so the default duration of 500 ms is 2. *)
(***************************************************************************)
EXTENDS Integers, Sequences, FiniteSets, TLC

\* ------------------------------------------------------------------------
\* Exact arithmetic on (a + b*sqrt(2)) / 2^k
\* ------------------------------------------------------------------------

RECURSIVE Norm(_, _, _)
Norm(a, b, k) ==
  IF k > 0 /\ a % 2 = 0 /\ b % 2 = 0 THEN Norm(a \div 2, b \div 2, k - 1)
  ELSE <<a, b, k>>

RECURSIVE Pow2(_)
Pow2(k) == IF k = 0 THEN 1 ELSE IF k = 1 THEN 2 ELSE 2 * Pow2(k - 1)

Num(n) == <<n, 0, 0>>

Zero == Num(0)

\* the number NaN, which every operation on it returns again
NaN == <<0, 0, -1>>

IsNaN(x) == x[3] < 0

NumAdd(x, y) ==
  IF x[3] = 0 /\ y[3] = 0 THEN <<x[1] + y[1], x[2] + y[2], 0>>
  ELSE IF IsNaN(x) \/ IsNaN(y) THEN NaN
  ELSE IF x[3] >= y[3]
  THEN Norm(x[1] + y[1] * Pow2(x[3] - y[3]), x[2] + y[2] * Pow2(x[3] - y[3]), x[3])
  ELSE Norm(x[1] * Pow2(y[3] - x[3]) + y[1], x[2] * Pow2(y[3] - x[3]) + y[2], y[3])

NumNeg(x) == <<-x[1], -x[2], x[3]>>

NumSub(x, y) == NumAdd(x, NumNeg(y))

\* x * sqrt(2)/2, the sine and cosine of pi/4
MulRoot(x) == IF IsNaN(x) THEN NaN ELSE Norm(2 * x[2], x[1], x[3] + 1)

NumHalf(x) == IF IsNaN(x) THEN NaN ELSE Norm(x[1], x[2], x[3] + 1)

\* sign of a + b*sqrt(2)
Sign(x) ==
  LET a == x[1]
      b == x[2]
  IN  IF a = 0 /\ b = 0 THEN 0
      ELSE IF a >= 0 /\ b >= 0 THEN 1
      ELSE IF a <= 0 /\ b <= 0 THEN -1
      ELSE IF a > 0 THEN (IF a * a > 2 * b * b THEN 1 ELSE -1)
      ELSE (IF 2 * b * b > a * a THEN 1 ELSE -1)

\* every comparison with NaN is false
NumLt(x, y) ==
  IF IsNaN(x) \/ IsNaN(y) THEN FALSE
  ELSE IF x[2] = 0 /\ y[2] = 0
  THEN x[1] * Pow2(y[3]) < y[1] * Pow2(x[3])
  ELSE Sign(NumSub(x, y)) < 0

NumLe(x, y) == ~IsNaN(x) /\ ~IsNaN(y) /\ ~NumLt(y, x)

NumAbs(x) ==
  IF x[2] = 0 THEN <<IF x[1] < 0 THEN -x[1] ELSE x[1], 0, x[3]>>
  ELSE IF Sign(x) < 0 THEN NumNeg(x) ELSE x

\* Math.min and Math.max, which return NaN when an argument is NaN
NumMin(x, y) == IF IsNaN(x) \/ IsNaN(y) THEN NaN ELSE IF NumLt(y, x) THEN y ELSE x

NumMax(x, y) == IF IsNaN(x) \/ IsNaN(y) THEN NaN ELSE IF NumLt(x, y) THEN y ELSE x

\* ------------------------------------------------------------------------
\* Vectors, pieces and rotation about a principal axis
\* ------------------------------------------------------------------------

Axes == {"x", "y", "z"}

Sections == {0, 1, 2}

Directions == {"clockwise", "counterclockwise"}

\* Math.PI / 2 in angle units of pi/4
HalfPi == 2

\* NaN as an angle, encoded as an integer that no angle of the model takes
NaNAngle == 1000 * HalfPi

\* a - b on angles
AngleSub(a, b) == IF a = NaNAngle \/ b = NaNAngle THEN NaNAngle ELSE a - b

AxisIndex(axis) == IF axis = "x" THEN 1 ELSE IF axis = "y" THEN 2 ELSE 3

Vec(x, y, z) == <<Num(x), Num(y), Num(z)>>

VecAdd(v, w) == <<NumAdd(v[1], w[1]), NumAdd(v[2], w[2]), NumAdd(v[3], w[3])>>

VecSub(v, w) == <<NumSub(v[1], w[1]), NumSub(v[2], w[2]), NumSub(v[3], w[3])>>

\* <<u cos - w sin, u sin + w cos>> for the angle n * pi/4
Rot2(u, w, n) ==
  LET m == n % 8
  IN  IF m = 0 THEN <<u, w>>
      ELSE IF m = 1 THEN <<MulRoot(NumSub(u, w)), MulRoot(NumAdd(u, w))>>
      ELSE IF m = 2 THEN <<NumNeg(w), u>>
      ELSE IF m = 3 THEN <<MulRoot(NumNeg(NumAdd(u, w))), MulRoot(NumSub(u, w))>>
      ELSE IF m = 4 THEN <<NumNeg(u), NumNeg(w)>>
      ELSE IF m = 5 THEN <<MulRoot(NumSub(w, u)), MulRoot(NumNeg(NumAdd(u, w)))>>
      ELSE IF m = 6 THEN <<w, NumNeg(u)>>
      ELSE <<MulRoot(NumAdd(u, w)), MulRoot(NumSub(w, u))>>

\* makeRotationAxis with the opposite handedness
makeRotationAxisLeftHanded(v, axis, angle) ==
  IF axis = "x"
  THEN LET r == Rot2(v[2], v[3], -angle) IN <<v[1], r[1], r[2]>>
  ELSE IF axis = "y"
  THEN LET r == Rot2(v[3], v[1], -angle) IN <<r[2], v[2], r[1]>>
  ELSE LET r == Rot2(v[1], v[2], -angle) IN <<r[1], r[2], v[3]>>

\* new THREE.Matrix4().makeRotationAxis(rotationAxis, angle) applied to a
\* vector: the right-handed rotation about the unit vector of the axis; with
\* the angle NaN every entry of the matrix is NaN
makeRotationAxis(v, axis, angle) ==
  IF angle = NaNAngle
  THEN <<NaN, NaN, NaN>>
  ELSE IF axis = "x"
  THEN LET r == Rot2(v[2], v[3], angle) IN <<v[1], r[1], r[2]>>
  ELSE IF axis = "y"
  THEN LET r == Rot2(v[3], v[1], angle) IN <<r[2], v[2], r[1]>>
  ELSE LET r == Rot2(v[1], v[2], angle) IN <<r[1], r[2], v[3]>>

Pieces == 1..27

\* the piece created for (x, y, z) by the three nested loops of initCube
initCube ==
  [i \in Pieces |->
     [position |-> Vec(((i - 1) \div 9) - 1, (((i - 1) \div 3) % 3) - 1, ((i - 1) % 3) - 1),
      basis    |-> <<Vec(1, 0, 0), Vec(0, 1, 0), Vec(0, 0, 1)>>]]

\* getSection with the borders -0.5 and 0.5 given to the outer sections
getSectionInclusive(position) ==
  IF NumLe(position, <<-1, 0, 1>>) THEN 0
  ELSE IF NumLe(<<1, 0, 1>>, position) THEN 2
  ELSE 1

getSection(position) ==
  IF NumLt(position, <<-1, 0, 1>>) THEN 0
  ELSE IF NumLt(<<1, 0, 1>>, position) THEN 2
  ELSE 1

\* isInSection with the lower threshold of section 0 taken as 0.5
isInSectionLoose(position, axis, section) ==
  LET value == position[AxisIndex(axis)]
  IN  IF section = 0 THEN NumLt(value, <<1, 0, 1>>)
      ELSE IF section = 1 THEN NumLe(<<-1, 0, 1>>, value) /\ NumLe(value, <<1, 0, 1>>)
      ELSE NumLt(<<1, 0, 1>>, value)

isInSection(position, axis, section) ==
  LET value == position[AxisIndex(axis)]
  IN  IF section = 0 THEN NumLt(value, <<-1, 0, 1>>)
      ELSE IF section = 1 THEN NumLe(<<-1, 0, 1>>, value) /\ NumLe(value, <<1, 0, 1>>)
      ELSE NumLt(<<1, 0, 1>>, value)

\* getSectionCubes that tests every piece against the x axis
getSectionCubesOnX(ch, axis, section) ==
  {c \in Pieces : isInSection(ch[c].position, "x", section)}

getSectionCubes(ch, axis, section) ==
  {c \in Pieces : isInSection(ch[c].position, axis, section)}

\* half the extent along coordinate j of the world bounding box of a piece:
\* the unit box of the piece geometry transformed by the piece's rotation
HalfExtent(piece, j) ==
  NumHalf(NumAdd(NumAbs(piece.basis[1][j]),
                 NumAdd(NumAbs(piece.basis[2][j]), NumAbs(piece.basis[3][j]))))

\* <<lowest, highest>> along coordinate j of the box expanded by the cubes
\* among pieces 1..i
RECURSIVE BoxRange(_, _, _, _)
BoxRange(ch, cubes, j, i) ==
  IF i = 0 THEN <<>>
  ELSE LET rest == BoxRange(ch, cubes, j, i - 1)
       IN  IF i \notin cubes THEN rest
           ELSE LET h  == HalfExtent(ch[i], j)
                    lo == NumSub(ch[i].position[j], h)
                    hi == NumAdd(ch[i].position[j], h)
                IN  IF rest = <<>> THEN <<lo, hi>>
                    ELSE <<NumMin(rest[1], lo), NumMax(rest[2], hi)>>

BoxCenter(range) == NumHalf(NumAdd(range[1], range[2]))

\* centre of the Box3 expanded by every cube of the group
calculateGroupCenter(ch, cubes) ==
  <<BoxCenter(BoxRange(ch, cubes, 1, 27)),
    BoxCenter(BoxRange(ch, cubes, 2, 27)),
    BoxCenter(BoxRange(ch, cubes, 3, 27))>>

rotateCubesAroundPivot(ch, pivot, cubes, axis, angle) ==
  [c \in Pieces |->
     IF c \in cubes
     THEN [position |-> VecAdd(makeRotationAxis(VecSub(ch[c].position, pivot), axis, angle), pivot),
           basis    |-> <<makeRotationAxis(ch[c].basis[1], axis, angle),
                         makeRotationAxis(ch[c].basis[2], axis, angle),
                         makeRotationAxis(ch[c].basis[3], axis, angle)>>]
     ELSE ch[c]]

applyRotation(ch, axis, section, angle) ==
  LET cubes == getSectionCubes(ch, axis, section)
  IN  IF cubes = {} THEN ch
      ELSE rotateCubesAroundPivot(ch, calculateGroupCenter(ch, cubes), cubes, axis, angle)

rotateEntireCube(ch, axis, angle) ==
  rotateCubesAroundPivot(ch, calculateGroupCenter(ch, Pieces), Pieces, axis, angle)

GridPoints == {Vec(x, y, z) : x \in {-1, 0, 1}, y \in {-1, 0, 1}, z \in {-1, 0, 1}}

IsGrid(ch) == {ch[c].position : c \in Pieces} = GridPoints

\* ------------------------------------------------------------------------
\* Angles, easing and clamping
\* ------------------------------------------------------------------------

\* an optional value: <<>> is null, <<v>> is the value v
Null == <<>>

Some(v) == <<v>>

Abs(n) == IF n < 0 THEN -n ELSE n

\* rotate's and rotateCube's default duration of 500 ms, in steps of 250 ms
DefaultDuration == 2

\* the target angle with the direction ignored
TargetAngleOneWay(direction) == HalfPi

TargetAngle(direction) == IF direction = "clockwise" THEN HalfPi ELSE -HalfPi

\* Math.min(elapsedTime / (duration / 1000), 1) as a fraction <<n, d>>; 0 / 0
\* is NaN, which Math.min returns, and is written <<0, 0>>
Progress(elapsedTime, duration) ==
  IF elapsedTime = 0 /\ duration = 0 THEN <<0, 0>>
  ELSE IF elapsedTime >= duration THEN <<1, 1>> ELSE <<elapsedTime, duration>>

\* t < 0.5 ? 4 t^3 : 1 - (-2 t + 2)^3 / 2, on the fraction t = <<n, d>>
easeInOutCubic(t) ==
  LET n == t[1]
      d == t[2]
  IN  IF 2 * n < d
      THEN <<4 * n * n * n, d * d * d>>
      ELSE <<2 * d * d * d - (2 * d - 2 * n) * (2 * d - 2 * n) * (2 * d - 2 * n),
             2 * d * d * d>>

\* targetAngle * easedProgress; the durations drawn make the quotient exact
CurrentAngle(targetAngle, elapsedTime, duration) ==
  LET e == easeInOutCubic(Progress(elapsedTime, duration))
  IN  IF e[2] = 0 THEN NaNAngle ELSE (targetAngle * e[1]) \div e[2]

\* completion taken at the first tick on which time has advanced
IsCompleteEarly(elapsedTime, duration) == elapsedTime > 0

IsComplete(elapsedTime, duration) ==
  LET t == Progress(elapsedTime, duration) IN ~(t[1] < t[2])

\* the loop with a clamp at the same distance taking over
RECURSIVE NearestFromLater(_, _, _, _)
NearestFromLater(angle, clamps, i, nearest) ==
  IF i > Len(clamps) THEN nearest
  ELSE IF Abs(angle - clamps[i]) <= Abs(angle - nearest)
       THEN NearestFromLater(angle, clamps, i + 1, clamps[i])
       ELSE NearestFromLater(angle, clamps, i + 1, nearest)

\* the loop of nearestClampDistance over clamps[i..]
RECURSIVE NearestFrom(_, _, _, _)
NearestFrom(angle, clamps, i, nearest) ==
  IF i > Len(clamps) THEN nearest
  ELSE IF Abs(angle - clamps[i]) < Abs(angle - nearest)
       THEN NearestFrom(angle, clamps, i + 1, clamps[i])
       ELSE NearestFrom(angle, clamps, i + 1, nearest)

\* the nearest clamp returned in place of the distance to it
nearestClampAngle(angle) ==
  NearestFrom(angle, <<-HalfPi, 0, HalfPi>>, 2, -HalfPi)

nearestClampDistance(angle) ==
  LET clamps == <<-HalfPi, 0, HalfPi>>
  IN  NearestFrom(angle, clamps, 2, clamps[1]) - angle

\* ------------------------------------------------------------------------
\* State
\* ------------------------------------------------------------------------

VARIABLES
  children,          \* this.children: piece -> [position, basis]
  isDragging,
  dragStart,         \* [x, y], each Null or Some(pixels)
  initialIntersect,  \* Null or Some([point, normal])
  selectedFace,      \* "x", "y", "z" or "null"
  rotationAxis,      \* "x", "y", "z" or "null"
  rotationSection,   \* Null or Some(0..2)
  rotationAngle,     \* Null or Some(angle)
  isRotating,
  rafQueue,          \* animate callbacks passed to requestAnimationFrame
  frame,             \* callbacks of the running frame that have yet to run
  thrown,            \* message of the Error the last handler threw, or "none"
  calls,             \* number of rotate and shuffle calls made
  events,            \* number of key and pointer events delivered
  shuffles,          \* per shuffle call: [turns, chosen], chosen the steps issued
  before,            \* this.children at the first rotate call of log
  log                \* the rotate calls made since

cubeVars == <<children, rotationAngle, isRotating, rafQueue, frame>>

dragVars == <<isDragging, dragStart, initialIntersect, selectedFace, rotationAxis,
              rotationSection>>

ghostVars == <<calls, events, shuffles, before, log>>

vars == <<cubeVars, dragVars, thrown, ghostVars>>

\* window.innerWidth and window.innerHeight, in pixels
InnerWidth == 80

InnerHeight == 80

\* Math.abs(deltaX) < 10 || Math.abs(deltaY) < 10
DragThreshold == 10

Init ==
  /\ children = initCube
  /\ isDragging = FALSE
  /\ dragStart = [x |-> Null, y |-> Null]
  /\ initialIntersect = Null
  /\ selectedFace = "null"
  /\ rotationAxis = "null"
  /\ rotationSection = Null
  /\ rotationAngle = Null
  /\ isRotating = FALSE
  /\ rafQueue = <<>>
  /\ frame = <<>>
  /\ thrown = "none"
  /\ calls = 0
  /\ events = 0
  /\ shuffles = <<>>
  /\ before = initCube
  /\ log = <<>>

\* ------------------------------------------------------------------------
\* Programmatic rotations and their animation callbacks
\* ------------------------------------------------------------------------

\* the closure of one animate callback: its arguments and its own clock;
\* applied records the currentAngle of its own previous tick (initialAngle
\* before the first), which the code does not keep
Animation(kind, axis, section, targetAngle, duration, callback) ==
  [kind |-> kind, axis |-> axis, section |-> section, targetAngle |-> targetAngle,
   duration |-> duration, elapsedTime |-> 0, callback |-> callback, applied |-> 0]

\* rotate that turns every layer clockwise
rotateOneWay(queue, axis, section, direction, duration, callback) ==
  Append(queue, Animation("section", axis, section, HalfPi, duration, callback))

\* rotate -> animateSectionRotation: requestAnimationFrame(animate)
rotate(queue, axis, section, direction, duration, callback) ==
  Append(queue, Animation("section", axis, section, TargetAngle(direction), duration, callback))

\* rotateCube -> animateCubeRotation, behind the isRotating guard
RotateCube(axis, direction, duration) ==
  IF isRotating
  THEN UNCHANGED <<isRotating, rafQueue>>
  ELSE /\ isRotating' = TRUE
       /\ rafQueue' = Append(rafQueue,
                        Animation("cube", axis, 0, TargetAngle(direction), duration, Null))

\* keys of two cases of the switch and one that matches none
Keys == {"ArrowUp", "d", "Enter"}

OnKeyboardRotation(key) ==
  /\ frame = <<>>
  /\ thrown' = "none"
  /\ IF key \in {"ArrowUp", "w", "W"} THEN RotateCube("x", "clockwise", DefaultDuration)
     ELSE IF key \in {"ArrowDown", "s", "S"} THEN RotateCube("x", "counterclockwise", DefaultDuration)
     ELSE IF key \in {"ArrowLeft", "a", "A"} THEN RotateCube("y", "clockwise", DefaultDuration)
     ELSE IF key \in {"ArrowRight", "d", "D"} THEN RotateCube("y", "counterclockwise", DefaultDuration)
     ELSE UNCHANGED <<isRotating, rafQueue>>
  /\ UNCHANGED <<children, rotationAngle, frame, dragVars>>

\* shuffleTurn(currentTurn) of the shuffle call `id` with `turns` turns; sh
\* is the record of the shuffle calls to extend with the step chosen
\* shuffleTurn with the bound of the chain off by one
shuffleTurnInclusive(queue, sh, id, turns, currentTurn) ==
  IF currentTurn <= turns
  THEN \E axis \in Axes, section \in Sections, direction \in Directions :
         /\ rafQueue' = rotate(queue, axis, section, direction, DefaultDuration,
                               Some([id |-> id, turns |-> turns, next |-> currentTurn + 1]))
         /\ shuffles' = [sh EXCEPT ![id].chosen = Append(@, <<axis, section, direction>>)]
  ELSE /\ rafQueue' = queue
       /\ shuffles' = sh

shuffleTurn(queue, sh, id, turns, currentTurn) ==
  IF currentTurn < turns
  THEN \E axis \in Axes, section \in Sections, direction \in Directions :
         /\ rafQueue' = rotate(queue, axis, section, direction, DefaultDuration,
                               Some([id |-> id, turns |-> turns, next |-> currentTurn + 1]))
         /\ shuffles' = [sh EXCEPT ![id].chosen = Append(@, <<axis, section, direction>>)]
  ELSE /\ rafQueue' = queue
       /\ shuffles' = sh

\* shuffle(turns)
Shuffle(turns) ==
  /\ frame = <<>>
  /\ thrown' = "none"
  /\ shuffleTurn(rafQueue, Append(shuffles, [turns |-> turns, chosen |-> <<>>]),
                 Len(shuffles) + 1, turns, 0)
  /\ UNCHANGED <<children, rotationAngle, isRotating, frame, dragVars>>

\* every clock advanced by dt, saturating where progress is 1 already (with
\* duration 0 that is any elapsed time above 0)
RECURSIVE Advance(_, _)
Advance(queue, dt) ==
  IF queue = <<>> THEN <<>>
  ELSE LET a   == Head(queue)
           cap == IF a.duration = 0 THEN 1 ELSE a.duration
           e   == IF a.elapsedTime + dt >= cap THEN cap ELSE a.elapsedTime + dt
       IN  <<[a EXCEPT !.elapsedTime = e]>> \o Advance(Tail(queue), dt)

\* the browser starts an animation frame dt after the previous one: the
\* callbacks requested so far run in the order they were requested
BeginFrame(dt) ==
  /\ frame = <<>>
  /\ rafQueue # <<>>
  /\ frame' = Advance(rafQueue, dt)
  /\ rafQueue' = <<>>
  /\ UNCHANGED <<children, rotationAngle, isRotating, dragVars, thrown, shuffles>>

\* the increment taken as the whole current angle
LastAngleDropped == 0 * Len(rotationAngle)

LastAngle == IF rotationAngle = Null THEN 0 ELSE rotationAngle[1]

\* animate of animateSectionRotation
AnimateSection ==
  /\ frame # <<>>
  /\ Head(frame).kind = "section"
  /\ LET a == Head(frame)
         currentAngle == CurrentAngle(a.targetAngle, a.elapsedTime, a.duration)
     IN  /\ children' = applyRotation(children, a.axis, a.section, AngleSub(currentAngle, LastAngle))
         /\ IF ~IsComplete(a.elapsedTime, a.duration)
            THEN /\ rotationAngle' = Some(currentAngle)
                 /\ rafQueue' = Append(rafQueue, [a EXCEPT !.applied = currentAngle])
                 /\ UNCHANGED <<isRotating, shuffles>>
            ELSE /\ isRotating' = FALSE
                 /\ rotationAngle' = Null
                 /\ IF a.callback = Null
                    THEN UNCHANGED <<rafQueue, shuffles>>
                    ELSE shuffleTurn(rafQueue, shuffles, a.callback[1].id,
                                     a.callback[1].turns, a.callback[1].next)
  /\ frame' = Tail(frame)
  /\ UNCHANGED <<dragVars, thrown>>

\* animate of animateCubeRotation
AnimateCube ==
  /\ frame # <<>>
  /\ Head(frame).kind = "cube"
  /\ LET a == Head(frame)
         currentAngle == CurrentAngle(a.targetAngle, a.elapsedTime, a.duration)
     IN  /\ children' = rotateEntireCube(children, a.axis, AngleSub(currentAngle, LastAngle))
         /\ IF ~IsComplete(a.elapsedTime, a.duration)
            THEN /\ rotationAngle' = Some(currentAngle)
                 /\ rafQueue' = Append(rafQueue, [a EXCEPT !.applied = currentAngle])
                 /\ UNCHANGED isRotating
            ELSE /\ isRotating' = FALSE
                 /\ rotationAngle' = Null
                 /\ UNCHANGED rafQueue
  /\ frame' = Tail(frame)
  /\ UNCHANGED <<dragVars, thrown, shuffles>>

\* ------------------------------------------------------------------------
\* Pointer handlers
\* ------------------------------------------------------------------------

\* what raycaster.intersectObjects([boundingBox]) can return first: a point
\* of a face of the 3 x 3 x 3 box with the face's normal
FaceNormals == {<<1, 0, 0>>, <<-1, 0, 0>>, <<0, 1, 0>>, <<0, -1, 0>>, <<0, 0, 1>>, <<0, 0, -1>>}

\* the point of the face with normal n over the piece centre (u, v, w)
FacePoint(n, u, v, w) ==
  <<IF n[1] # 0 THEN <<3 * n[1], 0, 1>> ELSE Num(u),
    IF n[2] # 0 THEN <<3 * n[2], 0, 1>> ELSE Num(v),
    IF n[3] # 0 THEN <<3 * n[3], 0, 1>> ELSE Num(w)>>

Intersections ==
  {[point |-> FacePoint(n, u, v, w), normal |-> n] :
     n \in FaceNormals, u \in {-1, 0, 1}, v \in {-1, 0, 1}, w \in {-1, 0, 1}}

\* onMouseDown; intersects is Null (no hit) or Some(intersects[0])
OnMouseDown(clientX, clientY, intersects) ==
  /\ frame = <<>>
  /\ thrown' = "none"
  /\ IF intersects # Null
     THEN /\ initialIntersect' = intersects
          /\ isDragging' = TRUE
          /\ dragStart' = [x |-> Some(clientX), y |-> Some(clientY)]
     ELSE UNCHANGED <<initialIntersect, isDragging, dragStart>>
  /\ UNCHANGED <<cubeVars, selectedFace, rotationAxis, rotationSection>>

\* getRotationAngle: [thrown, angle]
getRotationAngle(deltaX, deltaY) ==
  IF selectedFace = rotationAxis
  THEN [thrown |-> "The selected face and rotation axis should not be the same.", angle |-> 0]
  ELSE
    LET horizontal == \/ selectedFace = "x" /\ rotationAxis = "y"
                      \/ selectedFace = "y" /\ rotationAxis = "z"
                      \/ selectedFace = "z" /\ rotationAxis = "y"
        vertical   == \/ selectedFace = "x" /\ rotationAxis = "z"
                      \/ selectedFace = "y" /\ rotationAxis = "x"
                      \/ selectedFace = "z" /\ rotationAxis = "x"
        maxpoint      == IF vertical THEN Some(InnerHeight)
                         ELSE IF horizontal THEN Some(InnerWidth) ELSE Null
        startingPoint == IF vertical THEN dragStart.y
                         ELSE IF horizontal THEN dragStart.x ELSE Null
        delta         == IF vertical THEN Some(deltaY)
                         ELSE IF horizontal
                              THEN Some(IF selectedFace = "y" THEN -deltaX ELSE deltaX)
                              ELSE Null
        falsy(v)      == v = Null \/ v[1] = 0
    IN  IF falsy(delta) \/ falsy(maxpoint) \/ falsy(startingPoint)
        THEN [thrown |-> "Unable to determine angle.", angle |-> 0]
        ELSE
          LET maxDelta == IF delta[1] > 0 THEN maxpoint[1] - startingPoint[1]
                          ELSE startingPoint[1]
              \* delta / maxDelta * PI / 2 clamped to -PI/2 .. PI/2; a zero
              \* maxDelta divides to +Infinity or -Infinity
              angle    == IF maxDelta = 0 THEN (IF delta[1] > 0 THEN HalfPi ELSE -HalfPi)
                          ELSE IF delta[1] * HalfPi >= HalfPi * maxDelta THEN HalfPi
                          ELSE IF delta[1] * HalfPi <= -HalfPi * maxDelta THEN -HalfPi
                          ELSE (delta[1] * HalfPi) \div maxDelta
          IN  [thrown |-> "none", angle |-> angle]

\* setRotation
setRotation(axis, section, deltaX, deltaY) ==
  IF rotationAngle = Null
  THEN /\ thrown' = "Rotation cannot be set without rotation angle being set."
       /\ UNCHANGED <<children, rotationAngle>>
  ELSE LET r == getRotationAngle(deltaX, deltaY)
       IN  IF r.thrown # "none"
           THEN /\ thrown' = r.thrown
                /\ UNCHANGED <<children, rotationAngle>>
           ELSE /\ thrown' = "none"
                /\ children' = applyRotation(children, axis, section, r.angle - rotationAngle[1])
                /\ rotationAngle' = Some(r.angle)

\* the early returns of onMouseMove
MouseMoveIgnored(clientX, clientY) ==
  \/ ~isDragging
  \/ initialIntersect = Null
  \/ dragStart.x = Null
  \/ dragStart.y = Null
  \/ Abs(clientX - dragStart.x[1]) < DragThreshold
  \/ Abs(clientY - dragStart.y[1]) < DragThreshold

\* onMouseMove that resolves a taller drag on an x face to the axis x
OnMouseMoveAlongFace(clientX, clientY) ==
  /\ frame = <<>>
  /\ IF MouseMoveIgnored(clientX, clientY)
     THEN /\ thrown' = "none"
          /\ UNCHANGED <<children, rotationAngle, selectedFace, rotationAxis, rotationSection>>
     ELSE
       LET deltaX == clientX - dragStart.x[1]
           deltaY == clientY - dragStart.y[1]
           n      == initialIntersect[1].normal
           wide   == Abs(deltaX) > Abs(deltaY)
           axis1  == IF n[1] # 0 THEN (IF wide THEN "y" ELSE "x") ELSE rotationAxis
           face1  == IF n[1] # 0 THEN "x" ELSE selectedFace
           axis2  == IF n[2] # 0 THEN (IF wide THEN "z" ELSE "x") ELSE axis1
           face2  == IF n[2] # 0 THEN "y" ELSE face1
           axis3  == IF n[3] # 0 THEN (IF wide THEN "y" ELSE "x") ELSE axis2
           face3  == IF n[3] # 0 THEN "z" ELSE face2
       IN  IF rotationAxis # "null" /\ rotationSection # Null /\ rotationAngle # Null
           THEN /\ setRotation(rotationAxis, rotationSection[1], deltaX, deltaY)
                /\ UNCHANGED <<selectedFace, rotationAxis, rotationSection>>
           ELSE /\ thrown' = "none"
                /\ rotationAngle' = Some(0)
                /\ rotationAxis' = axis3
                /\ selectedFace' = face3
                /\ rotationSection' =
                     IF axis3 # "null"
                     THEN Some(getSection(initialIntersect[1].point[AxisIndex(axis3)]))
                     ELSE rotationSection
                /\ UNCHANGED children
  /\ UNCHANGED <<isDragging, dragStart, initialIntersect, isRotating, rafQueue, frame>>

\* onMouseMove
OnMouseMove(clientX, clientY) ==
  /\ frame = <<>>
  /\ IF MouseMoveIgnored(clientX, clientY)
     THEN /\ thrown' = "none"
          /\ UNCHANGED <<children, rotationAngle, selectedFace, rotationAxis, rotationSection>>
     ELSE
       LET deltaX == clientX - dragStart.x[1]
           deltaY == clientY - dragStart.y[1]
           n      == initialIntersect[1].normal
           wide   == Abs(deltaX) > Abs(deltaY)
           axis1  == IF n[1] # 0 THEN (IF wide THEN "y" ELSE "z") ELSE rotationAxis
           face1  == IF n[1] # 0 THEN "x" ELSE selectedFace
           axis2  == IF n[2] # 0 THEN (IF wide THEN "z" ELSE "x") ELSE axis1
           face2  == IF n[2] # 0 THEN "y" ELSE face1
           axis3  == IF n[3] # 0 THEN (IF wide THEN "y" ELSE "x") ELSE axis2
           face3  == IF n[3] # 0 THEN "z" ELSE face2
       IN  IF rotationAxis # "null" /\ rotationSection # Null /\ rotationAngle # Null
           THEN /\ setRotation(rotationAxis, rotationSection[1], deltaX, deltaY)
                /\ UNCHANGED <<selectedFace, rotationAxis, rotationSection>>
           ELSE /\ thrown' = "none"
                /\ rotationAngle' = Some(0)
                /\ rotationAxis' = axis3
                /\ selectedFace' = face3
                /\ rotationSection' =
                     IF axis3 # "null"
                     THEN Some(getSection(initialIntersect[1].point[AxisIndex(axis3)]))
                     ELSE rotationSection
                /\ UNCHANGED children
  /\ UNCHANGED <<isDragging, dragStart, initialIntersect, isRotating, rafQueue, frame>>

\* onMouseUp
OnMouseUp ==
  /\ frame = <<>>
  /\ thrown' = "none"
  /\ isDragging' = FALSE
  /\ children' =
       IF rotationAxis # "null" /\ rotationSection # Null /\ rotationAngle # Null
       THEN applyRotation(children, rotationAxis, rotationSection[1],
                          nearestClampDistance(rotationAngle[1]))
       ELSE children
  /\ rotationAxis' = "null"
  /\ rotationSection' = Null
  /\ rotationAngle' = Null
  /\ UNCHANGED <<dragStart, initialIntersect, selectedFace, isRotating, rafQueue, frame>>

\* ------------------------------------------------------------------------
\* The cube with every operation and event interleaved
\* ------------------------------------------------------------------------

\* bounds of the exploration
MaxCalls == 2

MaxTurns == 1

\* a rotate or shuffle call counts for two inputs, a key or pointer event for one
MaxInputs == 4

Inputs == 2 * calls + events

MaxDt == 1

\* durations passed to rotate
Durations == {DefaultDuration}

\* pointer positions: the middle of the window, 5 px past it (below the drag
\* threshold), a quarter of the window before it and the far edge
PointerStart == InnerWidth \div 2

PointerCoords == {PointerStart \div 2, PointerStart + 5, InnerWidth}

\* hits on the three faces the camera looks at
SeenIntersections ==
  {i \in Intersections :
     /\ i.normal \in {<<-1, 0, 0>>, <<0, 1, 0>>, <<0, 0, 1>>}
     /\ \A j \in 1..3 : i.normal[j] = 0 => i.point[j] = Num(1)}

Rotate(axis, section, direction, duration) ==
  /\ frame = <<>>
  /\ calls < MaxCalls
  /\ Inputs + 2 <= MaxInputs
  /\ calls' = calls + 1
  /\ rafQueue' = rotate(rafQueue, axis, section, direction, duration, Null)
  /\ UNCHANGED <<children, rotationAngle, isRotating, frame, dragVars, thrown,
                 events, shuffles, before, log>>

KeyDown(key) ==
  /\ Inputs + 1 <= MaxInputs
  /\ events' = events + 1
  /\ OnKeyboardRotation(key)
  /\ UNCHANGED <<calls, shuffles, before, log>>

ShuffleCall(turns) ==
  /\ calls < MaxCalls
  /\ Inputs + 2 <= MaxInputs
  /\ calls' = calls + 1
  /\ Shuffle(turns)
  /\ UNCHANGED <<events, before, log>>

MouseDown(clientX, clientY, intersects) ==
  /\ Inputs + 1 <= MaxInputs
  /\ events' = events + 1
  /\ OnMouseDown(clientX, clientY, intersects)
  /\ UNCHANGED <<calls, shuffles, before, log>>

MouseMove(clientX, clientY) ==
  /\ Inputs + 1 <= MaxInputs
  /\ events' = events + 1
  /\ OnMouseMove(clientX, clientY)
  /\ UNCHANGED <<calls, shuffles, before, log>>

MouseUp ==
  /\ Inputs + 1 <= MaxInputs
  /\ events' = events + 1
  /\ OnMouseUp
  /\ UNCHANGED <<calls, shuffles, before, log>>

Frame(dt) ==
  /\ BeginFrame(dt)
  /\ UNCHANGED <<calls, events, before, log>>

TickSection ==
  /\ AnimateSection
  /\ UNCHANGED <<calls, events, before, log>>

TickCube ==
  /\ AnimateCube
  /\ UNCHANGED <<calls, events, before, log>>

Next ==
  \/ \E axis \in Axes, section \in Sections, direction \in Directions, duration \in Durations :
       Rotate(axis, section, direction, duration)
  \/ \E key \in Keys : KeyDown(key)
  \/ \E turns \in 0..MaxTurns : ShuffleCall(turns)
  \/ \E intersects \in {Null} \cup {Some(i) : i \in SeenIntersections} :
       MouseDown(PointerStart, PointerStart, intersects)
  \/ \E clientX \in PointerCoords, clientY \in PointerCoords : MouseMove(clientX, clientY)
  \/ MouseUp
  \/ \E dt \in 1..MaxDt : Frame(dt)
  \/ TickSection
  \/ TickCube

Spec == Init /\ [][Next]_vars

\* ------------------------------------------------------------------------
\* Rotations of one layer, from a grid configuration
\* ------------------------------------------------------------------------

MaxPrefix == 1

MaxLayerCalls == 4

\* the configurations that one completed quarter turn of a layer or of the
\* whole cube makes of c
CompletedTurns(c) ==
  {applyRotation(c, axis, section, TargetAngle(direction)) :
     axis \in Axes, section \in Sections, direction \in Directions}
  \cup {rotateEntireCube(c, axis, TargetAngle(direction)) :
          axis \in {"x", "y"}, direction \in Directions}

RECURSIVE ConfigsWithin(_)
ConfigsWithin(n) ==
  IF n = 0 THEN {initCube}
  ELSE LET r == ConfigsWithin(n - 1) IN r \cup UNION {CompletedTurns(c) : c \in r}

StartConfigs == ConfigsWithin(MaxPrefix)

LayerInit ==
  /\ children \in StartConfigs
  /\ before = children
  /\ isDragging = FALSE
  /\ dragStart = [x |-> Null, y |-> Null]
  /\ initialIntersect = Null
  /\ selectedFace = "null"
  /\ rotationAxis = "null"
  /\ rotationSection = Null
  /\ rotationAngle = Null
  /\ isRotating = FALSE
  /\ rafQueue = <<>>
  /\ frame = <<>>
  /\ thrown = "none"
  /\ calls = 0
  /\ events = 0
  /\ shuffles = <<>>
  /\ log = <<>>

Idle == rafQueue = <<>> /\ frame = <<>>

\* the previous rotate call has been made and no frame has run since
JustCalled ==
  /\ Len(rafQueue) = 1
  /\ frame = <<>>
  /\ rafQueue[1].elapsedTime = 0
  /\ rotationAngle = Null

\* rotate(axis, section, direction, duration) on the layer of the calls made
\* so far: the first call in either direction, the second either once the
\* first has completed or, for the inverse of the first, at once; further
\* clockwise calls, each once the previous one has completed
LayerRotate(axis, section, direction, duration) ==
  /\ frame = <<>>
  /\ Len(log) < MaxLayerCalls
  /\ \/ log = <<>> /\ Idle
     \/ /\ Len(log) = 1
        /\ log[1].direction = "clockwise"
        /\ <<axis, section, duration>> = <<log[1].axis, log[1].section, log[1].duration>>
        /\ Idle \/ (JustCalled /\ direction = "counterclockwise")
     \/ /\ Len(log) >= 2
        /\ \A i \in 1..Len(log) : log[i].direction = "clockwise"
        /\ <<axis, section, duration>> = <<log[1].axis, log[1].section, log[1].duration>>
        /\ direction = "clockwise"
        /\ Idle
  /\ log' = Append(log, [axis |-> axis, section |-> section, direction |-> direction,
                         duration |-> duration, overlapped |-> ~Idle])
  /\ rafQueue' = rotate(rafQueue, axis, section, direction, duration, Null)
  /\ UNCHANGED <<children, rotationAngle, isRotating, frame, dragVars, thrown,
                 calls, events, shuffles, before>>

LayerNext ==
  \/ \E axis \in Axes, section \in Sections, direction \in Directions,
        duration \in 1..DefaultDuration :
       LayerRotate(axis, section, direction, duration)
  \/ \E dt \in 0..MaxDt : Frame(dt)
  \/ TickSection

LayerSpec == LayerInit /\ [][LayerNext]_vars

\* ------------------------------------------------------------------------
\* Completed rotations of layers and of the whole cube, one after another
\* ------------------------------------------------------------------------

MaxSeqCalls == 2

SeqRotate(axis, section, direction) ==
  /\ Idle
  /\ Len(log) < MaxSeqCalls
  /\ log' = Append(log, [axis |-> axis, section |-> section, direction |-> direction,
                         duration |-> DefaultDuration, overlapped |-> FALSE])
  /\ rafQueue' = rotate(rafQueue, axis, section, direction, DefaultDuration, Null)
  /\ UNCHANGED <<children, rotationAngle, isRotating, frame, dragVars, thrown,
                 calls, events, shuffles, before>>

\* rotateCube(axis, direction); the log records it with section -1
SeqRotateCube(axis, direction) ==
  /\ Idle
  /\ Len(log) < MaxSeqCalls
  /\ log' = Append(log, [axis |-> axis, section |-> -1, direction |-> direction,
                         duration |-> DefaultDuration, overlapped |-> FALSE])
  /\ RotateCube(axis, direction, DefaultDuration)
  /\ UNCHANGED <<children, rotationAngle, frame, dragVars, thrown,
                 calls, events, shuffles, before>>

SeqNext ==
  \/ \E axis \in Axes, section \in Sections, direction \in Directions :
       SeqRotate(axis, section, direction)
  \/ \E axis \in {"x", "y"}, direction \in Directions : SeqRotateCube(axis, direction)
  \/ \E dt \in 0..MaxDt : Frame(dt)
  \/ TickSection
  \/ TickCube

SeqSpec == Init /\ [][SeqNext]_vars

\* ------------------------------------------------------------------------
\* One shuffle call, with frames that keep coming while time advances
\* ------------------------------------------------------------------------

MaxShuffleTurns == 2

ShuffleOnce(turns) ==
  /\ shuffles = <<>>
  /\ Shuffle(turns)
  /\ UNCHANGED <<calls, events, before, log>>

AdvancingFrame == \E dt \in 1..MaxDt : Frame(dt)

ShuffleNext ==
  \/ \E turns \in 0..MaxShuffleTurns : ShuffleOnce(turns)
  \/ AdvancingFrame
  \/ TickSection
  \/ MouseUp

\* a callback of the started frame runs; under ShuffleNext such a step is a
\* TickSection step, and TickSection is enabled whenever frame # <<>>
RunCallback == frame # <<>> /\ frame' = Tail(frame)

\* the browser keeps starting frames while callbacks are requested and the
\* clock advances, and it runs every callback of a frame it has started
ShuffleSpec ==
  Init /\ [][ShuffleNext]_vars /\ WF_vars(AdvancingFrame) /\ WF_frame(RunCallback)

\* ------------------------------------------------------------------------
\* One rotate or rotateCube request, with duration 0 or the default
\* ------------------------------------------------------------------------

RequestDurations == {0, DefaultDuration}

ZeroRotate(axis, section, direction, duration) ==
  /\ log = <<>>
  /\ Idle
  /\ log' = <<[axis |-> axis, section |-> section, direction |-> direction,
               duration |-> duration, overlapped |-> FALSE]>>
  /\ rafQueue' = rotate(rafQueue, axis, section, direction, duration, Null)
  /\ UNCHANGED <<children, rotationAngle, isRotating, frame, dragVars, thrown,
                 calls, events, shuffles, before>>

ZeroRotateCube(axis, direction, duration) ==
  /\ log = <<>>
  /\ Idle
  /\ log' = <<[axis |-> axis, section |-> -1, direction |-> direction,
               duration |-> duration, overlapped |-> FALSE]>>
  /\ RotateCube(axis, direction, duration)
  /\ UNCHANGED <<children, rotationAngle, frame, dragVars, thrown,
                 calls, events, shuffles, before>>

ZeroNext ==
  \/ \E axis \in Axes, section \in Sections, direction \in Directions,
        duration \in RequestDurations :
       ZeroRotate(axis, section, direction, duration)
  \/ \E axis \in {"x", "y"}, direction \in Directions, duration \in RequestDurations :
       ZeroRotateCube(axis, direction, duration)
  \/ \E dt \in 0..MaxDt : Frame(dt)
  \/ TickSection
  \/ TickCube

\* frames in which the clock has advanced keep coming, among those in which
\* it has not, and the callbacks of a started frame run
ZeroSpec ==
  Init /\ [][ZeroNext]_vars /\ SF_vars(AdvancingFrame) /\ WF_frame(RunCallback)

\* ------------------------------------------------------------------------
\* Pointer events alone: drag sessions with no animation in flight
\* ------------------------------------------------------------------------

MaxDragEvents == 4

\* pointer-down positions: the middle of the window and its left edge
DragStarts == {<<PointerStart, PointerStart>>, <<0, PointerStart>>}

\* pointer-move positions: PointerCoords and three quarters of the window
DragCoords == PointerCoords \cup {PointerStart + PointerStart \div 2}

\* hits on the three faces the camera looks at, over piece centres and over
\* the borders between pieces
DragIntersections ==
  {[point |-> <<IF n[1] # 0 THEN <<3 * n[1], 0, 1>> ELSE t,
                IF n[2] # 0 THEN <<3 * n[2], 0, 1>> ELSE t,
                IF n[3] # 0 THEN <<3 * n[3], 0, 1>> ELSE t>>,
    normal |-> n] :
     n \in {<<-1, 0, 0>>, <<0, 1, 0>>, <<0, 0, 1>>},
     t \in {Num(-1), <<-1, 0, 1>>, Zero, <<1, 0, 1>>, Num(1)}}

\* the event being delivered, with the session fields it finds
PointerEvent(kind, clientX, clientY) ==
  [kind |-> kind, x |-> clientX, y |-> clientY,
   dragging |-> isDragging /\ initialIntersect # Null,
   face |-> selectedFace, axis |-> rotationAxis,
   section |-> rotationSection, angle |-> rotationAngle]

DragDown(clientX, clientY, intersects) ==
  /\ events < MaxDragEvents
  /\ events' = events + 1
  /\ log' = <<PointerEvent("down", clientX, clientY)>>
  /\ OnMouseDown(clientX, clientY, intersects)
  /\ UNCHANGED <<calls, shuffles, before>>

\* before keeps the pieces as they were when the drag was resolved
DragMove(clientX, clientY) ==
  /\ events < MaxDragEvents
  /\ events' = events + 1
  /\ log' = <<PointerEvent("move", clientX, clientY)>>
  /\ OnMouseMove(clientX, clientY)
  /\ before' = IF rotationAxis = "null" THEN children ELSE before
  /\ UNCHANGED <<calls, shuffles>>

DragUp ==
  /\ events < MaxDragEvents
  /\ events' = events + 1
  /\ log' = <<PointerEvent("up", 0, 0)>>
  /\ OnMouseUp
  /\ UNCHANGED <<calls, shuffles, before>>

DragNext ==
  \/ \E start \in DragStarts, hit \in DragIntersections :
       DragDown(start[1], start[2], Some(hit))
  \/ \E start \in DragStarts : DragDown(start[1], start[2], Null)
  \/ \E clientX \in DragCoords, clientY \in DragCoords : DragMove(clientX, clientY)
  \/ DragUp

DragSpec == Init /\ [][DragNext]_vars

\* ------------------------------------------------------------------------
\* Sequential rotations with pointer-up events and no drag session
\* ------------------------------------------------------------------------

MaxInertUps == 2

\* mouseup on the window when no mousedown has hit the cube
InertUp ==
  /\ events < MaxInertUps
  /\ events' = events + 1
  /\ OnMouseUp
  /\ UNCHANGED <<calls, shuffles, before, log>>

InertNext ==
  \/ \E axis \in Axes, section \in Sections, direction \in Directions :
       SeqRotate(axis, section, direction)
  \/ \E axis \in {"x", "y"}, direction \in Directions : SeqRotateCube(axis, direction)
  \/ \E dt \in 0..MaxDt : Frame(dt)
  \/ TickSection
  \/ TickCube
  \/ InertUp

InertSpec == Init /\ [][InertNext]_vars

\* ------------------------------------------------------------------------
\* Successive drag sessions on the faces in view
\* ------------------------------------------------------------------------

MaxSessionEvents == 8

\* pointer-move positions for a pointer-down at the middle of the window:
\* within the threshold, a taller drag and a wider drag
SessionMoves ==
  {<<PointerStart + 5, PointerStart + 5>>,
   <<PointerStart + PointerStart \div 2, InnerHeight>>,
   <<InnerWidth, PointerStart + PointerStart \div 2>>}

\* hits on each of the six faces of the bounding box
SessionIntersections ==
  {i \in Intersections : \A j \in 1..3 : i.normal[j] = 0 => i.point[j] = Num(1)}

SessionDown(clientX, clientY, intersects) ==
  /\ events < MaxSessionEvents
  /\ events' = events + 1
  /\ log' = <<PointerEvent("down", clientX, clientY)>>
  /\ OnMouseDown(clientX, clientY, intersects)
  /\ UNCHANGED <<calls, shuffles, before>>

SessionMove(clientX, clientY) ==
  /\ events < MaxSessionEvents
  /\ events' = events + 1
  /\ log' = <<PointerEvent("move", clientX, clientY)>>
  /\ OnMouseMove(clientX, clientY)
  /\ UNCHANGED <<calls, shuffles, before>>

SessionUp ==
  /\ events < MaxSessionEvents
  /\ events' = events + 1
  /\ log' = <<PointerEvent("up", 0, 0)>>
  /\ OnMouseUp
  /\ UNCHANGED <<calls, shuffles, before>>

SessionNext ==
  \/ \E hit \in SessionIntersections : SessionDown(PointerStart, PointerStart, Some(hit))
  \/ SessionDown(PointerStart, PointerStart, Null)
  \/ \E move \in SessionMoves : SessionMove(move[1], move[2])
  \/ SessionUp

SessionSpec == Init /\ [][SessionNext]_vars

\* ------------------------------------------------------------------------
\* Claims
\* ------------------------------------------------------------------------

InFlight == rafQueue \o frame

\* no layer animation, no whole-cube animation and no resolved drag
AtRest == Idle /\ rotationAxis = "null"

\* C1: whenever no rotation is in progress, the 27 positions are exactly the
\* 27 points of {-1, 0, 1}^3, under every interleaving of the operations.
C1_GridAtRest == AtRest => IsGrid(children)

CubeAnimations == {i \in 1..Len(InFlight) : InFlight[i].kind = "cube"}

\* C4: in every reachable state at most one whole-cube animation is in
\* flight, whatever layer rotations start or complete meanwhile.
C4_OneCubeAnimation == Cardinality(CubeAnimations) <= 1

\* the quarter turn of the claim: (x, y, z) to (z, y, -x) about y, to
\* (x, -z, y) about x, to (-y, x, z) about z, and the inverse maps
QuarterTurn(p, axis, direction) ==
  IF direction = "clockwise"
  THEN IF axis = "y" THEN <<p[3], p[2], NumNeg(p[1])>>
       ELSE IF axis = "x" THEN <<p[1], NumNeg(p[3]), p[2]>>
       ELSE <<NumNeg(p[2]), p[1], p[3]>>
  ELSE IF axis = "y" THEN <<NumNeg(p[3]), p[2], p[1]>>
       ELSE IF axis = "x" THEN <<p[1], p[3], NumNeg(p[2])>>
       ELSE <<p[2], NumNeg(p[1]), p[3]>>

\* the pieces of a grid configuration on the layer (axis, section)
LayerOf(ch, axis, section) ==
  {c \in Pieces : ch[c].position[AxisIndex(axis)] = Num(section - 1)}

LogLayer == LayerOf(before, log[1].axis, log[1].section)

\* C2: one rotate call made on a grid configuration with nothing in flight,
\* once completed, has moved each of the 9 pieces of the layer by the
\* right-handed quarter turn about the axis, +90 degrees for clockwise.
C2_QuarterTurn ==
  (Len(log) = 1 /\ Idle) =>
    /\ Cardinality(LogLayer) = 9
    /\ \A c \in LogLayer :
         children[c].position = QuarterTurn(before[c].position, log[1].axis, log[1].direction)

C2_Witness ==
  /\ Len(log) = 1
  /\ Idle
  /\ before # initCube
  /\ log[1] = [axis |-> "y", section |-> 1, direction |-> "counterclockwise",
               duration |-> DefaultDuration, overlapped |-> FALSE]

\* C3: while one rotate call runs alone, at every tick and at completion the
\* 18 pieces outside the layer keep position and orientation, and every tick
\* selects the same 9 pieces.
C3_Frame ==
  Len(log) = 1 =>
    /\ \A c \in Pieces \ LogLayer : children[c] = before[c]
    /\ \A i \in 1..Len(InFlight) :
         getSectionCubes(children, InFlight[i].axis, InFlight[i].section) = LogLayer

C3_Witness ==
  /\ Len(log) = 1
  /\ frame # <<>>
  /\ rotationAngle # Null
  /\ ~IsGrid(children)

\* C8: a clockwise rotate followed by a counterclockwise rotate of the same
\* layer with the same duration, issued after the first has completed or at
\* once, leaves every piece of the layer where it was once both have completed.
C8_InverseCancels ==
  (Len(log) = 2 /\ log[2].direction = "counterclockwise" /\ Idle) =>
    \A c \in LogLayer : children[c].position = before[c].position

C8_Witness ==
  /\ Len(log) = 2
  /\ log[2].direction = "counterclockwise"
  /\ log[2].overlapped
  /\ Idle

\* C9: four clockwise rotate calls on the same layer, each issued after the
\* previous one has completed, return the 9 pieces of the layer to their
\* original positions.
C9_FourTurns ==
  (Len(log) = 4 /\ (\A i \in 1..4 : log[i].direction = "clockwise") /\ Idle) =>
    \A c \in LogLayer : children[c].position = before[c].position

C9_Witness ==
  /\ Len(log) = 4
  /\ \A i \in 1..4 : log[i].direction = "clockwise" /\ ~log[i].overlapped
  /\ Idle
  /\ before # initCube

\* the animations in flight that shuffle call id has started
StepsInFlight(id) ==
  {i \in 1..Len(InFlight) :
     InFlight[i].callback # Null /\ InFlight[i].callback[1].id = id}

\* the step that issues a further rotate of shuffle call id is the final tick
\* of its previous step, and leaves the animation state released
IssuedAfterFinalTick(id) ==
  Len(shuffles'[id].chosen) > Len(shuffles[id].chosen) =>
    /\ frame # <<>>
    /\ Head(frame).callback =
         Some([id |-> id, turns |-> shuffles[id].turns, next |-> Len(shuffles[id].chosen)])
    /\ Head(frame).elapsedTime >= Head(frame).duration
    /\ rotationAngle' = Null
    /\ isRotating' = FALSE
    /\ \A i \in 1..Len(rafQueue') :
         rafQueue'[i].callback # Null /\ rafQueue'[i].callback[1].id = id
           => rafQueue'[i].elapsedTime = 0

\* C5: during a shuffle at most one of its layer animations is in flight, and
\* the rotate call of a further step is issued only by the final tick of the
\* previous step, after it has released the animation state.
C5_Sequential ==
  /\ [](\A id \in 1..Len(shuffles) : Cardinality(StepsInFlight(id)) <= 1)
  /\ [][\A id \in 1..Len(shuffles) : IssuedAfterFinalTick(id)]_vars

C5_Witness ==
  /\ shuffles # <<>>
  /\ Len(shuffles[1].chosen) = 2
  /\ Cardinality(StepsInFlight(1)) = 1
  /\ frame # <<>>

\* C6: shuffle(turns) starts exactly turns layer rotations, and with frames
\* that keep coming it reaches a state where all have completed and nothing
\* is pending; shuffle(0) starts none.
C6_CountAndTermination ==
  /\ [](\A id \in 1..Len(shuffles) : Len(shuffles[id].chosen) <= shuffles[id].turns)
  /\ (shuffles # <<>>) ~>
       (Idle /\ \A id \in 1..Len(shuffles) : Len(shuffles[id].chosen) = shuffles[id].turns)

C6_Witness ==
  /\ shuffles # <<>>
  /\ shuffles[1].turns = 2
  /\ Len(shuffles[1].chosen) = 2
  /\ Idle

\* the positions after the quarter turns chosen[1..n], applied in order
RECURSIVE ComposeTurns(_, _, _)
ComposeTurns(positions, chosen, n) ==
  IF n = 0 THEN positions
  ELSE LET p == ComposeTurns(positions, chosen, n - 1)
           t == chosen[n]
       IN  [c \in Pieces |->
              IF p[c][AxisIndex(t[1])] = Num(t[2] - 1)
              THEN QuarterTurn(p[c], t[1], t[3])
              ELSE p[c]]

\* C7: a shuffle run alone from the initial configuration ends in the grid
\* configuration that the quarter turns chosen at its steps compose to.
C7_ShuffleResult ==
  (shuffles # <<>> /\ Idle /\ events = 0) =>
    /\ IsGrid(children)
    /\ [c \in Pieces |-> children[c].position]
         = ComposeTurns([c \in Pieces |-> initCube[c].position],
                        shuffles[1].chosen, Len(shuffles[1].chosen))

C7_Witness ==
  /\ shuffles # <<>>
  /\ Idle
  /\ events = 0
  /\ shuffles[1].chosen = <<<<"x", 0, "clockwise">>, <<"y", 2, "counterclockwise">>>>

\* C10: after completed rotations of layers and of the whole cube made one
\* after another, every layer selects exactly 9 pieces and the three
\* sections of an axis are pairwise disjoint and cover the 27 pieces.
C10_Partition ==
  Idle =>
    \A axis \in Axes :
      /\ \A section \in Sections : Cardinality(getSectionCubes(children, axis, section)) = 9
      /\ \A s1 \in Sections, s2 \in Sections :
           s1 # s2 => getSectionCubes(children, axis, s1) \cap getSectionCubes(children, axis, s2) = {}
      /\ UNION {getSectionCubes(children, axis, section) : section \in Sections} = Pieces

C10_Witness ==
  /\ Idle
  /\ Len(log) = 2
  /\ log[1].section = -1
  /\ log[2].section = 0
  /\ log[2].axis = "z"

\* the positions a completed request of log[1] leads to from before
RequestResult ==
  [c \in Pieces |->
     IF log[1].section = -1 \/ c \in LogLayer
     THEN QuarterTurn(before[c].position, log[1].axis, log[1].direction)
     ELSE before[c].position]

\* C11: a request with duration 0 completes on its first tick with the full
\* quarter turn applied, whatever the elapsed time of that tick, and no
\* not-a-number coordinate is ever given to a piece.
C11_ZeroDuration ==
  /\ \A c \in Pieces : \A j \in 1..3 : ~IsNaN(children[c].position[j])
  /\ (Len(log) = 1 /\ log[1].duration = 0) =>
       /\ \A i \in 1..Len(rafQueue) : rafQueue[i].elapsedTime = 0
       /\ Idle => [c \in Pieces |-> children[c].position] = RequestResult

\* C19: with frames that keep coming, a started animation reaches a tick that
\* does not request another one; that tick has progress 1 and leaves the
\* last-applied angle unset, and no second copy of the animation ever runs.
C19_CompletesOnce ==
  /\ (log # <<>>) ~> Idle
  /\ [](Len(InFlight) <= 1)
  /\ [][(frame # <<>> /\ frame' = Tail(frame) /\ rafQueue' = rafQueue) =>
          /\ Progress(Head(frame).elapsedTime, Head(frame).duration) = <<1, 1>>
          /\ rotationAngle' = Null]_vars

\* the last pointer event delivered, with the session fields it found
LastEvent == log[1]

Clamps == {-HalfPi, 0, HalfPi}

\* the positions of the grid configuration ch with the layer turned by clamp
TurnedPositions(ch, axis, section, clamp) ==
  [c \in Pieces |->
     IF clamp = 0 \/ c \notin LayerOf(ch, axis, section)
     THEN ch[c].position
     ELSE QuarterTurn(ch[c].position, axis,
                      IF clamp > 0 THEN "clockwise" ELSE "counterclockwise")]

\* a pointer-up has just ended an Active drag
ReleasedActive ==
  /\ log # <<>>
  /\ LastEvent.kind = "up"
  /\ LastEvent.axis # "null"
  /\ LastEvent.section # Null
  /\ LastEvent.angle # Null

\* C12: after the pointer-up of an Active drag the dragged layer is turned,
\* in total since the drag was resolved, by the member of {-pi/2, 0, pi/2}
\* nearest to the angle accumulated at release, and the cube is a grid.
C12_ReleaseSnaps ==
  ReleasedActive =>
    /\ IsGrid(children)
    /\ \E clamp \in Clamps :
         /\ \A other \in Clamps :
              Abs(clamp - LastEvent.angle[1]) <= Abs(other - LastEvent.angle[1])
         /\ [c \in Pieces |-> children[c].position]
              = TurnedPositions(before, LastEvent.axis, LastEvent.section[1], clamp)

C12_Witness ==
  /\ ReleasedActive
  /\ LastEvent.angle = Some(-1)
  /\ children # before

MaxScale == 8

\* C13: the angle a drag accumulates lies in -pi/2 .. pi/2, and for every
\* angle of that range angle + nearestClampDistance(angle) is a member of
\* {-pi/2, 0, pi/2}, no member is strictly closer, and of two members equally
\* close the earlier (lower) one is taken; the loop does the same on every
\* finer scale h for pi/2.
C13_NearestClamp ==
  /\ rotationAngle # Null => rotationAngle[1] \in -HalfPi..HalfPi
  /\ \A angle \in -HalfPi..HalfPi :
       LET r == angle + nearestClampDistance(angle)
       IN  /\ r \in Clamps
           /\ \A c \in Clamps :
                /\ Abs(r - angle) <= Abs(c - angle)
                /\ Abs(r - angle) = Abs(c - angle) => r <= c
  /\ \A h \in 1..MaxScale : \A angle \in -h..h :
       LET r == NearestFrom(angle, <<-h, 0, h>>, 2, -h)
       IN  /\ r \in {-h, 0, h}
           /\ \A c \in {-h, 0, h} :
                /\ Abs(r - angle) <= Abs(c - angle)
                /\ Abs(r - angle) = Abs(c - angle) => r <= c

C13_Witness ==
  /\ ReleasedActive
  /\ LastEvent.angle = Some(1)
  /\ children = before

\* a pointer-move has just been delivered to a session with a hit and no axis
ResolvingMove ==
  /\ log # <<>>
  /\ LastEvent.kind = "move"
  /\ LastEvent.dragging
  /\ LastEvent.axis = "null"

\* C14: a pointer-move before axis resolution is a no-op exactly when both
\* |deltaX| < 10 and |deltaY| < 10; otherwise it resolves axis and section.
C14_Threshold ==
  ResolvingMove =>
    IF /\ Abs(LastEvent.x - dragStart.x[1]) < DragThreshold
       /\ Abs(LastEvent.y - dragStart.y[1]) < DragThreshold
    THEN /\ rotationAxis = "null"
         /\ rotationSection = Null
         /\ rotationAngle = Null
         /\ children = before
    ELSE /\ rotationAxis # "null"
         /\ rotationSection # Null
         /\ rotationAngle # Null

\* C15: a resolved drag has the axis the grabbed face and the larger of
\* |deltaX|, |deltaY| select, the grabbed face of the hit's normal, and the
\* section of the hit point's coordinate along the axis (0 below -0.5, 2 above
\* 0.5, otherwise 1).
C15_Resolution ==
  (ResolvingMove /\ rotationAxis # "null") =>
    LET n    == initialIntersect[1].normal
        wide == Abs(LastEvent.x - dragStart.x[1]) > Abs(LastEvent.y - dragStart.y[1])
        face == IF n[1] # 0 THEN "x" ELSE IF n[2] # 0 THEN "y" ELSE "z"
        axis == IF face = "x" THEN (IF wide THEN "y" ELSE "z")
                ELSE IF face = "y" THEN (IF wide THEN "z" ELSE "x")
                ELSE (IF wide THEN "y" ELSE "x")
        v    == initialIntersect[1].point[AxisIndex(axis)]
    IN  /\ rotationAxis = axis
        /\ selectedFace = face
        /\ rotationSection =
             Some(IF NumLt(v, <<-1, 0, 1>>) THEN 0 ELSE IF NumLt(<<1, 0, 1>>, v) THEN 2 ELSE 1)

C15_Witness ==
  /\ ResolvingMove
  /\ selectedFace = "y"
  /\ rotationAxis = "x"
  /\ initialIntersect[1].point[1] = <<1, 0, 1>>
  /\ rotationSection = Some(1)

\* a pointer-move has just been delivered to an Active drag
ActiveMove ==
  /\ log # <<>>
  /\ LastEvent.kind = "move"
  /\ LastEvent.dragging
  /\ LastEvent.axis # "null"
  /\ LastEvent.section # Null
  /\ LastEvent.angle # Null

\* C16: after every pointer-move of an Active drag the accumulated angle is
\* the clamped angle of the current total delta, and the layer is turned by
\* that angle in total, for every pointer position.
C16_TracksPointer ==
  ActiveMove =>
    LET r == getRotationAngle(LastEvent.x - dragStart.x[1], LastEvent.y - dragStart.y[1])
    IN  r.thrown = "none" =>
          /\ rotationAngle = Some(r.angle)
          /\ children = applyRotation(before, rotationAxis, rotationSection[1], r.angle)

\* C18: a pointer-move raises only the two usage errors, so with a valid
\* face and axis the angle computation raises nothing for any start
\* coordinate of 0 .. window size and any delta past the threshold.
C18_DragErrors ==
  thrown \in {"none",
              "The selected face and rotation axis should not be the same.",
              "Rotation cannot be set without rotation angle being set."}

\* C20: after every pointer-up the dragging flag is false and the start
\* coordinates, the hit, the grabbed face, the axis, the section and the
\* accumulated angle are all unset.
C20_UpClears ==
  (log # <<>> /\ LastEvent.kind = "up") =>
    /\ ~isDragging
    /\ dragStart = [x |-> Null, y |-> Null]
    /\ initialIntersect = Null
    /\ selectedFace = "null"
    /\ rotationAxis = "null"
    /\ rotationSection = Null
    /\ rotationAngle = Null

\* C17: the angle a tick subtracts as last applied is the angle the same
\* animation had at its own previous tick, under every interleaving with
\* other animations and with pointer events.
C17_OwnAngle == frame # <<>> => LastAngle = Head(frame).applied

\* a pointer-up delivered while no axis or no section is resolved
UnresolvedUp ==
  /\ events' = events + 1
  /\ isDragging' = FALSE
  /\ rotationAxis = "null" \/ rotationSection = Null

\* C21: a pointer-up that finds no resolved axis and section moves no piece
\* and leaves every animation in flight and its last-applied angle as they
\* were, so a request interrupted by such pointer-ups still ends with exactly
\* its quarter turn applied.
C21_InertUp ==
  /\ [][UnresolvedUp =>
          /\ children' = children
          /\ InFlight' = InFlight
          /\ LastAngle' = LastAngle]_vars
  /\ []((Len(log) = 1 /\ Idle) => [c \in Pieces |-> children[c].position] = RequestResult)

\* C22: under pointer events with axis-aligned hit normals, over successive
\* drag sessions, whenever the rotation axis is set the grabbed face is set
\* and differs from it, and the angle computation never raises the error for
\* equal face and axis.
C22_FaceNotAxis ==
  /\ rotationAxis # "null" => (selectedFace # "null" /\ selectedFace # rotationAxis)
  /\ thrown # "The selected face and rotation axis should not be the same."

\* a later session is resolved to the axis that was the grabbed face of the
\* session before it
C22_Witness ==
  /\ ResolvingMove
  /\ LastEvent.face # "null"
  /\ rotationAxis = LastEvent.face
  /\ selectedFace # LastEvent.face

====
